---- MODULE Spec2Model ----
(***************************************************************************)
(* Client-side session custody of SwipingForJobs: the SessionManager      *)
(* singleton over localStorage (frontend/src/sessionManager.js) and the   *)
(* App component code that drives it (frontend/src/App.jsx, Profile.jsx). *)
(*                                                                         *)
(* Time is in milliseconds, as in the code.  JavaScript values are        *)
(* records with a kind field k, so that undefined, null, the empty string *)
(* and the texts localStorage holds stay distinct.                        *)
(***************************************************************************)
EXTENDS Integers, Sequences, FiniteSets, TLC

(***************************************************************************)
(* Bounds of the model.                                                    *)
(***************************************************************************)
MaxTicks == 3          \* the clock advances at most this many times
NumProcs == 2          \* overlapping checkAndRefreshSession invocations
MaxTokens == 2         \* session tokens the server issues in one run
MaxStates == 2         \* OAuth state values the server issues in one run
MaxCallbacks == 3      \* loads of the OAuth callback page in one run
MaxInFlight == 1       \* checkAndRefreshSession calls in flight while the timers are watched
MaxWatchSteps == 5     \* steps of the fine clock of the expiry watch

Procs == 1..NumProcs

(***************************************************************************)
(* Program constants.                                                      *)
(***************************************************************************)
MinuteMs == 1000 * 60
RefreshWindowMs == 2 * 60 * 60 * 1000
ExpiringSoonMinutes == 30
InactivityMs == 30 * 60 * 1000

\* The clock advances by one inactivity period at a time.
TickMs == InactivityMs

\* Session lifetimes the server grants (expires_at - now of the response).
Lifetimes == {150 * MinuteMs}

(***************************************************************************)
(* JavaScript values.                                                      *)
(***************************************************************************)
\* a token argument: undefined, null, "" or a non-empty string
TokUndef == [k |-> "undef", n |-> 0]
TokNull == [k |-> "null", n |-> 0]
TokEmpty == [k |-> "empty", n |-> 0]
Tok(n) == [k |-> "str", n |-> n]

\* an expires_at argument: undefined, null, "", a text that is no date, an ISO date
ExpUndef == [k |-> "undef", ms |-> 0]
ExpNull == [k |-> "null", ms |-> 0]
ExpEmpty == [k |-> "empty", ms |-> 0]
ExpBad == [k |-> "bad", ms |-> 0]
Iso(t) == [k |-> "iso", ms |-> t]

\* a user argument: undefined, null or an object with id, email and the
\* remaining profile fields (rev stands for them)
UserUndef == [k |-> "undef", id |-> 0, email |-> "", rev |-> 0]
UserNull == [k |-> "null", id |-> 0, email |-> "", rev |-> 0]
UserObj(id, email, rev) == [k |-> "obj", id |-> id, email |-> email, rev |-> rev]

\* what localStorage.getItem returns (null) for a key that is not stored
AbsentTok == [k |-> "absent", n |-> 0]
AbsentExp == [k |-> "absent", ms |-> 0]
AbsentUser == [k |-> "absent", form |-> "", id |-> 0, email |-> "", rev |-> 0]

\* a JavaScript number that may be NaN
NaN == [nan |-> TRUE, n |-> 0]
Num(n) == [nan |-> FALSE, n |-> n]

\* !v for the values above: undefined, null and "" are falsy
Falsy(v) == v.k \in {"undef", "null", "empty", "absent"}

(***************************************************************************)
(* Conversions.                                                            *)
(***************************************************************************)
\* a JSON.stringify that keeps id and email only
JSONStringifyIdEmailOnly(u) ==
    CASE u.k = "undef" -> [k |-> "text", form |-> "undefined", id |-> 0, email |-> "", rev |-> 0]
      [] u.k = "null" -> [k |-> "text", form |-> "null", id |-> 0, email |-> "", rev |-> 0]
      [] OTHER -> [k |-> "text", form |-> "json", id |-> u.id, email |-> u.email, rev |-> 0]

\* String(JSON.stringify(v)) as localStorage.setItem stores it:
\* JSON.stringify(undefined) is undefined, stored as the text undefined
JSONStringify(u) ==
    CASE u.k = "undef" -> [k |-> "text", form |-> "undefined", id |-> 0, email |-> "", rev |-> 0]
      [] u.k = "null" -> [k |-> "text", form |-> "null", id |-> 0, email |-> "", rev |-> 0]
      [] OTHER -> [k |-> "text", form |-> "json", id |-> u.id, email |-> u.email, rev |-> u.rev]

\* JSON.parse of a stored text: the text undefined is no JSON and throws
JSONParse(s) ==
    CASE s.form = "undefined" -> [threw |-> TRUE, v |-> UserUndef]
      [] s.form = "null" -> [threw |-> FALSE, v |-> UserNull]
      [] OTHER -> [threw |-> FALSE, v |-> UserObj(s.id, s.email, s.rev)]

\* setItem(key, v) for a token or expires_at that is a non-empty string
\* stores that string
ToText(v) == v

\* new Date(text).getTime()
DateGetTime(e) == IF e.k = "iso" THEN Num(e.ms) ELSE NaN

(***************************************************************************)
(* SessionManager: the store is the three localStorage items.             *)
(***************************************************************************)
EmptyStore == [token |-> AbsentTok, user |-> AbsentUser, expiry |-> AbsentExp]

getToken(st) == st.token

\* getUser that returns whatever parses
getUserUnchecked(st) ==
    IF st.user.k = "absent" THEN UserNull
    ELSE LET r == JSONParse(st.user) IN
         IF r.threw THEN UserNull ELSE r.v

getUser(st) ==
    IF st.user.k = "absent" THEN UserNull
    ELSE LET r == JSONParse(st.user) IN
         IF r.threw THEN UserNull
         ELSE IF r.v.k # "obj" \/ r.v.id = 0 \/ r.v.email = "" THEN UserNull
         ELSE r.v

getExpiry(st) == st.expiry

\* setSession that tests the token alone
setSessionTokenOnly(st, tok, usr, exp) ==
    IF Falsy(tok)
    THEN [ret |-> FALSE, st |-> st]
    ELSE [ret |-> TRUE,
          st |-> [token |-> ToText(tok), user |-> JSONStringify(usr), expiry |-> ToText(exp)]]

\* the return value and the store after setSession(sessionToken, userData, expiresAt)
setSession(st, tok, usr, exp) ==
    IF Falsy(tok) \/ Falsy(usr) \/ Falsy(exp)
    THEN [ret |-> FALSE, st |-> st]
    ELSE [ret |-> TRUE,
          st |-> [token |-> ToText(tok), user |-> JSONStringify(usr), expiry |-> ToText(exp)]]

\* setSession when the k-th of its three localStorage.setItem calls throws
\* (the quota is exceeded): the writes before it stay, the catch of line 23
\* returns false
setSessionThrowing(st, tok, usr, exp, k) ==
    IF Falsy(tok) \/ Falsy(usr) \/ Falsy(exp)
    THEN [ret |-> FALSE, st |-> st]
    ELSE [ret |-> FALSE,
          st |-> [token |-> IF k > 1 THEN ToText(tok) ELSE st.token,
                  user |-> IF k > 2 THEN JSONStringify(usr) ELSE st.user,
                  expiry |-> st.expiry]]

\* isSessionValid that compares with now <= expiryDate
isSessionValidInclusive(st, t) ==
    IF Falsy(getToken(st)) \/ Falsy(getExpiry(st)) \/ Falsy(getUser(st)) THEN FALSE
    ELSE LET d == DateGetTime(getExpiry(st)) IN
         IF d.nan THEN FALSE ELSE t <= d.n

isSessionValid(st, t) ==
    IF Falsy(getToken(st)) \/ Falsy(getExpiry(st)) \/ Falsy(getUser(st)) THEN FALSE
    ELSE LET d == DateGetTime(getExpiry(st)) IN
         IF d.nan THEN FALSE ELSE t < d.n

\* clearSession that leaves the user item
clearSessionKeepsUser(st) == [EmptyStore EXCEPT !.user = st.user]

clearSession(st) == EmptyStore

\* updateUser that also removes the expiry item
updateUserDropsExpiry(st, u) == [st EXCEPT !.user = JSONStringify(u), !.expiry = AbsentExp]

updateUser(st, u) == [st EXCEPT !.user = JSONStringify(u)]

isLoggedIn(st, t) == isSessionValid(st, t) /\ getUser(st).k # "null"

Max(a, b) == IF a >= b THEN a ELSE b

\* minutes until expiry; NaN when the stored expiry is no date
getTimeUntilExpiry(st, t) ==
    IF Falsy(getExpiry(st)) THEN Num(0)
    ELSE LET d == DateGetTime(getExpiry(st)) IN
         IF d.nan THEN NaN ELSE Num(Max(0, (d.n - t) \div MinuteMs))

\* NaN < 30 is false
isSessionExpiringSoon(st, t) ==
    LET m == getTimeUntilExpiry(st, t) IN (~m.nan) /\ m.n < ExpiringSoonMinutes

(***************************************************************************)
(* State.                                                                  *)
(***************************************************************************)
VARIABLES
    store,            \* the three localStorage items
    now,              \* the clock, in ms
    issued,           \* number of session tokens the server has issued
    isAuthenticated,  \* App state
    initializing,     \* App state: the check on app load has not finished
    pc,               \* per invocation of checkAndRefreshSession: where it is
    caller,           \* per invocation: the handler that awaits it
    result,           \* per invocation: the boolean it returned
    log,              \* per invocation: its requests, responses and store writes, in order
    body,             \* per invocation: the session of the /auth/refresh body it read
    sent,             \* per invocation: the token of its /auth/me request, kept under SpecTokens
    call,             \* the last direct call of a SessionManager operation
    page,             \* where the browser tab is: the app, GitHub, the callback page
    handshake,        \* sessionStorage: github_oauth_state and github_linking_user_id
    statesIssued,     \* number of OAuth state values the server has issued
    mounts,           \* number of loads of the callback page
    status,           \* GitHubCallback state: status
    cpc,              \* where handleGitHubCallback is
    params,           \* the search parameters of the callback URL
    hs0,              \* the handshake as it was when the callback page loaded
    events,           \* this callback: status changes, requests, responses, removals, in order
    toast,            \* App state: the toast on screen
    screen,           \* App state: currentScreen
    timers,           \* the two intervals, the inactivity countdown, the interaction listeners
    applying,         \* handleApply awaits the response of /users/apply
    handled           \* the App handler that ran last, and the forced logout it made

oauthVars == <<page, handshake, statesIssued, mounts, status, cpc, params, hs0, events>>

appVars == <<toast, screen, timers, applying, handled>>

vars == <<store, now, issued, isAuthenticated, initializing, pc, caller, result, log, body, sent, call,
          oauthVars, appVars>>

\* a step of a view of the program in which the toast, the screen, the
\* timers and the job application are not looked at
Quiet(Step) == Step /\ UNCHANGED appVars /\ UNCHANGED sent

NoBody == [tok |-> TokUndef, exp |-> ExpUndef]
NoCall == [op |-> "none", tok |-> TokUndef, usr |-> UserUndef, exp |-> ExpUndef,
           threw |-> 0, ret |-> FALSE, before |-> EmptyStore]

\* sessionStorage without the two handshake items (0: the item is not stored)
NoHandshake == [state |-> 0, userId |-> 0]

\* a URL without code, state and error parameters (state 0: no parameter)
NoParams == [code |-> FALSE, state |-> 0, error |-> FALSE]

\* no countdown is pending
NoTimer == 0 - 1

\* no interval, no countdown, no listener
TimersOff == [poll |-> FALSE, watch |-> FALSE, listeners |-> FALSE,
              activity |-> NoTimer, last |-> NoTimer]

NoHandler == [h |-> "none", forced |-> "none"]

\* the user the server knows, before and after a profile edit
Alice(rev) == UserObj(1, "alice@example.com", rev)

\* what the server may put in the user field of an ok /auth/me body
MeUsers == {Alice(0), Alice(1), UserUndef}

\* sessions that an earlier page load may have left in localStorage
PersistedStores ==
    {EmptyStore} \cup
    {[token |-> Tok(1), user |-> JSONStringify(Alice(0)), expiry |-> Iso(t)] :
        t \in {0 - TickMs, 90 * MinuteMs, 150 * MinuteMs}}

Init ==
    /\ store \in PersistedStores
    /\ now = 0
    /\ issued = 1
    /\ isAuthenticated = FALSE
    /\ initializing = TRUE
    /\ pc = [p \in Procs |-> "idle"]
    /\ caller = [p \in Procs |-> "none"]
    /\ result = [p \in Procs |-> FALSE]
    /\ log = [p \in Procs |-> <<>>]
    /\ body = [p \in Procs |-> NoBody]
    /\ sent = [p \in Procs |-> AbsentTok]
    /\ call = NoCall
    /\ page = "app"
    /\ handshake = NoHandshake
    /\ statesIssued = 0
    /\ mounts = 0
    /\ status = "none"
    /\ cpc = "idle"
    /\ params = NoParams
    /\ hs0 = NoHandshake
    /\ events = <<>>
    /\ toast = "none"
    /\ screen = "loading"
    /\ timers = TimersOff
    /\ applying = FALSE
    /\ handled = NoHandler

Has(p, e) == \E i \in 1..Len(log[p]) : log[p][i] = e

\* A handler that awaits checkAndRefreshSession resumes in a microtask when
\* the promise settles, before any timer, event or network callback runs.
NoPendingReturn == \A p \in Procs : pc[p] # "done"

(***************************************************************************)
(* checkAndRefreshSession, split at its awaits.                            *)
(***************************************************************************)
\* A new invocation takes the first free slot (the slots are interchangeable).
FreeSlot(p) == pc[p] = "idle" /\ \A q \in Procs : q < p => pc[q] # "idle"

\* the local checks without the validity test of line 128
LocalCheckNoExpiry(st, t) ==
    IF Falsy(getToken(st)) \/ Falsy(getUser(st)) THEN "no_session" ELSE "local_ok"

\* lines 119-132: the local checks
LocalCheck(st, t) ==
    IF Falsy(getToken(st)) \/ Falsy(getUser(st)) THEN "no_session"
    ELSE IF ~isSessionValid(st, t) THEN "not_valid"
    ELSE "local_ok"

\* lines 119-139: the local checks and the /auth/me request
ReconcileStart(p, c) ==
    /\ FreeSlot(p)
    /\ caller' = [caller EXCEPT ![p] = c]
    /\ body' = [body EXCEPT ![p] = NoBody]
    /\ result' = [result EXCEPT ![p] = FALSE]
    /\ LET v == LocalCheck(store, now) IN
       IF v = "local_ok"
       THEN /\ store' = store
            /\ pc' = [pc EXCEPT ![p] = "awaitMe"]
            /\ log' = [log EXCEPT ![p] = <<v, "me_req">>]
       ELSE /\ store' = clearSession(store)
            /\ pc' = [pc EXCEPT ![p] = "done"]
            /\ log' = [log EXCEPT ![p] = <<v, "clear">>]

\* a failed /auth/me treated as a rejection
MeFailedClears(st, t) == [ret |-> FALSE, st |-> clearSession(st)]

\* a failed /auth/me answered with the verdict of the check before the call
MeFailedCachedVerdict(st, t) == [ret |-> TRUE, st |-> st]

\* lines 184-194: the else branch and the catch
MeFailed(st, t) == [ret |-> isSessionValid(st, t), st |-> st]

\* a 401 that leaves the store alone
MeUnauthorizedKeeps(st) == [ret |-> FALSE, st |-> st]

\* lines 180-183: the verdict on a 401
MeUnauthorized(st) == [ret |-> FALSE, st |-> clearSession(st)]

\* the refresh decision with the 30 minute window of isSessionExpiringSoon
NeedsRefreshSoon(exp, t) ==
    /\ ~Falsy(exp)
    /\ LET d == DateGetTime(exp) IN (~d.nan) /\ d.n - t < ExpiringSoonMinutes * MinuteMs

\* the refresh decision with <= in place of <
NeedsRefreshInclusive(exp, t) ==
    /\ ~Falsy(exp)
    /\ LET d == DateGetTime(exp) IN (~d.nan) /\ d.n - t <= RefreshWindowMs

\* line 156: the refresh decision on the stored expiry
NeedsRefresh(exp, t) ==
    /\ ~Falsy(exp)
    /\ LET d == DateGetTime(exp) IN (~d.nan) /\ d.n - t < RefreshWindowMs

\* line 146 left out
MeUserWriteSkipped(st, u) == st

\* line 146
MeUserWrite(st, u) == updateUser(st, u)

\* lines 136-162, 179-194: the /auth/me fetch settles.  Between the response
\* and its body (await response.json()) the function reads and writes
\* nothing, so both are handled in one step.  Outcomes:
\*   "neterr"   fetch rejects
\*   "401"      status 401
\*   "other"    a non-2xx status that is not 401
\*   "badbody"  ok, but response.json() or data.user throws
\*   "ok"       ok with a body whose user field is u
MeResponse(p, outcome, u) ==
    /\ pc[p] = "awaitMe"
    /\ NoPendingReturn
    /\ CASE outcome = "ok" ->
              LET st1 == MeUserWrite(store, u)
                  exp == getExpiry(st1)
                  wrote == IF st1.user = JSONStringify(u) THEN <<"user_write">> ELSE <<>>
              IN  /\ store' = st1
                  /\ IF NeedsRefresh(exp, now)
                     THEN /\ pc' = [pc EXCEPT ![p] = "awaitRefresh"]
                          /\ log' = [log EXCEPT ![p] =
                                @ \o <<"me_ok">> \o wrote \o <<"expiry_read", "refresh_req">>]
                          /\ result' = result
                     ELSE /\ pc' = [pc EXCEPT ![p] = "done"]
                          /\ log' = [log EXCEPT ![p] =
                                @ \o <<"me_ok">> \o wrote \o <<"expiry_read">>]
                          /\ result' = [result EXCEPT ![p] = TRUE]
         [] outcome = "401" ->
              LET r == MeUnauthorized(store) IN
              /\ store' = r.st
              /\ result' = [result EXCEPT ![p] = r.ret]
              /\ pc' = [pc EXCEPT ![p] = "done"]
              /\ log' = [log EXCEPT ![p] =
                    @ \o <<"me_401">> \o (IF r.st = EmptyStore THEN <<"clear">> ELSE <<>>)]
         [] OTHER ->
              LET r == MeFailed(store, now) IN
              /\ store' = r.st
              /\ result' = [result EXCEPT ![p] = r.ret]
              /\ pc' = [pc EXCEPT ![p] = "done"]
              /\ log' = [log EXCEPT ![p] =
                    @ \o <<"me_" \o outcome>> \o (IF r.st = store THEN <<>> ELSE <<"clear">>)]
    /\ UNCHANGED <<now, issued, isAuthenticated, initializing, caller, body, call>>
    /\ UNCHANGED oauthVars

\* the refresh write passing the stored token in place of the new one
RefreshWriteKeepsToken(st, tok, exp) == setSession(st, getToken(st), getUser(st), exp)

\* lines 166-167
RefreshWrite(st, tok, exp) == setSession(st, tok, getUser(st), exp)

\* a failed refresh treated as the end of the session
RefreshFailedClears(st) == [ret |-> FALSE, st |-> clearSession(st)]

\* lines 169-175: a refresh that failed is logged and nothing else
RefreshFailed(st) == [ret |-> TRUE, st |-> st]

\* lines 159-179: the /auth/refresh fetch settles (response and body in one
\* step, as above).  Outcomes:
\*   "neterr"   fetch rejects
\*   "fail"     any non-2xx status
\*   "badbody"  ok, but refreshResponse.json() or refreshData.session.token throws
\*   "ok"       ok with a body whose session has token tok and expires_at exp
RefreshResponse(p, outcome, tok, exp) ==
    /\ pc[p] = "awaitRefresh"
    /\ NoPendingReturn
    /\ IF outcome = "ok"
       THEN LET r == RefreshWrite(store, tok, exp) IN
            /\ store' = r.st
            /\ log' = [log EXCEPT ![p] = @ \o
                  <<IF Falsy(tok) \/ Falsy(exp) THEN "refresh_partbody" ELSE "refresh_ok",
                    IF r.st # store \/ r.ret THEN "refresh_write" ELSE "set_rejected">>]
            /\ issued' = IF tok = Tok(issued + 1) THEN issued + 1 ELSE issued
            /\ result' = [result EXCEPT ![p] = TRUE]
            /\ body' = [body EXCEPT ![p] = [tok |-> tok, exp |-> exp]]
       ELSE LET r == RefreshFailed(store) IN
            /\ store' = r.st
            /\ body' = body
            /\ log' = [log EXCEPT ![p] = Append(@, "refresh_" \o outcome)]
            /\ issued' = issued
            /\ result' = [result EXCEPT ![p] = r.ret]
    /\ pc' = [pc EXCEPT ![p] = "done"]
    /\ UNCHANGED <<now, isAuthenticated, initializing, caller, call>>
    /\ UNCHANGED oauthVars

(***************************************************************************)
(* The App component.                                                      *)
(***************************************************************************)
\* a logout that leaves localStorage as it is
handleLogoutKeepsStore ==
    /\ store' = store
    /\ isAuthenticated' = FALSE

\* App.jsx lines 300-317
handleLogout ==
    /\ store' = clearSession(store)
    /\ isAuthenticated' = FALSE

\* App.jsx lines 139-159: the check on app load; with a token and a user
\* stored it awaits checkAndRefreshSession
CheckAuthStatus(p) ==
    /\ initializing
    /\ \A q \in Procs : pc[q] = "idle"
    /\ IF Falsy(getToken(store)) \/ Falsy(getUser(store))
       THEN /\ initializing' = FALSE
            /\ isAuthenticated' = FALSE
            /\ UNCHANGED <<store, pc, caller, result, log, body>>
       ELSE /\ ReconcileStart(p, "mount")
            /\ UNCHANGED <<initializing, isAuthenticated>>
    /\ UNCHANGED <<now, issued, call>>
    /\ UNCHANGED oauthVars

\* App.jsx lines 216-217: a tick of the 5 minute interval
Poll(p) ==
    /\ isAuthenticated
    /\ NoPendingReturn
    /\ ReconcileStart(p, "poll")
    /\ UNCHANGED <<now, issued, isAuthenticated, initializing, call>>
    /\ UNCHANGED oauthVars

\* App.jsx lines 256-258: the inactivity countdown runs out
Inactivity(p) ==
    /\ isAuthenticated
    /\ NoPendingReturn
    /\ ReconcileStart(p, "inactivity")
    /\ UNCHANGED <<now, issued, isAuthenticated, initializing, call>>
    /\ UNCHANGED oauthVars

\* App.jsx lines 266-272: an interaction while the session expires soon
Activity(p) ==
    /\ isAuthenticated
    /\ NoPendingReturn
    /\ isSessionExpiringSoon(store, now)
    /\ ReconcileStart(p, "activity")
    /\ UNCHANGED <<now, issued, isAuthenticated, initializing, call>>
    /\ UNCHANGED oauthVars

\* The awaiting handler resumes: App.jsx lines 160-207 (app load),
\* 218-224 (interval), 259-262 (inactivity); line 270 awaits nothing.
Return(p) ==
    /\ pc[p] = "done"
    /\ pc' = [pc EXCEPT ![p] = "idle"]
    /\ caller' = [caller EXCEPT ![p] = "none"]
    /\ result' = [result EXCEPT ![p] = FALSE]
    /\ log' = [log EXCEPT ![p] = <<>>]
    /\ body' = [body EXCEPT ![p] = NoBody]
    /\ CASE caller[p] = "mount" ->
              /\ initializing' = FALSE
              /\ IF result[p] /\ ~Falsy(getUser(store))
                 THEN /\ isAuthenticated' = TRUE
                      /\ store' = store
                 ELSE \* verdict false, or currentUser.id throws on null
                      /\ isAuthenticated' = FALSE
                      /\ store' = clearSession(store)
         [] caller[p] \in {"poll", "inactivity"} ->
              /\ initializing' = initializing
              /\ IF result[p]
                 THEN UNCHANGED <<store, isAuthenticated>>
                 ELSE handleLogout
         [] OTHER ->
              UNCHANGED <<store, isAuthenticated, initializing>>
    /\ UNCHANGED <<now, issued, call>>
    /\ UNCHANGED oauthVars

\* App.jsx lines 505-546: the ok login response is handled; user.id throws
\* on a missing user, after the setSession call and before setIsAuthenticated
Login(hasSession, tok, usr, exp) ==
    /\ ~initializing
    /\ ~isAuthenticated
    /\ NoPendingReturn
    /\ store' = IF hasSession THEN setSession(store, tok, usr, exp).st ELSE store
    /\ issued' = IF hasSession /\ tok = Tok(issued + 1) THEN issued + 1 ELSE issued
    /\ isAuthenticated' = (usr.k = "obj")
    /\ UNCHANGED <<now, initializing, pc, caller, result, log, body, call>>
    /\ UNCHANGED oauthVars

\* App.jsx line 784: the logout button
Logout ==
    /\ isAuthenticated
    /\ NoPendingReturn
    /\ handleLogout
    /\ UNCHANGED <<now, issued, initializing, pc, caller, result, log, body, call>>
    /\ UNCHANGED oauthVars

\* Profile.jsx lines 153-157 and 183-186: the server echoes the saved profile
ProfileSaved(u) ==
    /\ isAuthenticated
    /\ NoPendingReturn
    /\ store' = updateUser(store, u)
    /\ UNCHANGED <<now, issued, isAuthenticated, initializing, pc, caller, result, log, body, call>>
    /\ UNCHANGED oauthVars

\* time passes
Tick ==
    /\ now < MaxTicks * TickMs
    /\ NoPendingReturn
    /\ now' = now + TickMs
    /\ UNCHANGED <<store, issued, isAuthenticated, initializing, pc, caller, result, log, body, call>>
    /\ UNCHANGED oauthVars

\* what the server may send as session.token and session.expires_at
FreshTokens == IF issued < MaxTokens THEN {Tok(issued + 1)} ELSE {}
FreshExpiries == {Iso(now + l) : l \in Lifetimes}

Next ==
    \/ \E p \in Procs :
          Quiet(CheckAuthStatus(p))
    \/ \E p \in Procs :
          Quiet(Poll(p))
    \/ \E p \in Procs :
          Quiet(Inactivity(p))
    \/ \E p \in Procs :
          Quiet(Activity(p))
    \/ \E p \in Procs, u \in MeUsers :
          Quiet(MeResponse(p, "ok", u))
    \/ \E p \in Procs, o \in {"401", "other", "neterr", "badbody"} :
          Quiet(MeResponse(p, o, UserUndef))
    \/ \E p \in Procs, tok \in FreshTokens \cup {TokUndef}, exp \in FreshExpiries \cup {ExpUndef} :
          Quiet(RefreshResponse(p, "ok", tok, exp))
    \/ \E p \in Procs, o \in {"fail", "neterr", "badbody"} :
          Quiet(RefreshResponse(p, o, TokUndef, ExpUndef))
    \/ \E p \in Procs :
          Quiet(Return(p))
    \/ \E tok \in FreshTokens \cup {TokEmpty}, usr \in {Alice(0), UserUndef},
          exp \in FreshExpiries \cup {ExpUndef} :
          Quiet(Login(TRUE, tok, usr, exp))
    \/ Quiet(Login(FALSE, TokUndef, Alice(0), ExpUndef))
    \/ Quiet(Logout)
    \/ Quiet(ProfileSaved(Alice(1)))
    \/ Quiet(Tick)

Spec == Init /\ [][Next]_vars

(***************************************************************************)
(* The SessionManager operations called directly, one call per step, with *)
(* arguments from bounded sets.                                            *)
(***************************************************************************)
TokenArgs == {TokUndef, TokNull, TokEmpty, Tok(1), Tok(2)}
UserArgs == {UserUndef, UserNull, Alice(0), Alice(1), UserObj(2, "", 0),
             UserObj(0, "bob@example.com", 0)}
ExpiryArgs == {ExpUndef, ExpNull, ExpEmpty, ExpBad, Iso(0 - TickMs), Iso(90 * MinuteMs)}

\* the argument triples of the setSession calls: at most one argument is
\* falsy, or all three are undefined
SetArgs ==
    {a \in TokenArgs \X UserArgs \X ExpiryArgs :
        \/ Cardinality({i \in 1..3 : Falsy(a[i])}) <= 1
        \/ a = <<TokUndef, UserUndef, ExpUndef>>}

CallSetSession(tok, usr, exp) ==
    LET r == setSession(store, tok, usr, exp) IN
    /\ store' = r.st
    /\ call' = [op |-> "setSession", tok |-> tok, usr |-> usr, exp |-> exp,
                threw |-> 0, ret |-> r.ret, before |-> store]
    /\ UNCHANGED <<now, issued, isAuthenticated, initializing, pc, caller, result, log, body>>
    /\ UNCHANGED oauthVars

\* a setSession call during which the k-th storage write throws
CallSetSessionThrowing(tok, usr, exp, k) ==
    LET r == setSessionThrowing(store, tok, usr, exp, k) IN
    /\ store' = r.st
    /\ call' = [op |-> "setSession", tok |-> tok, usr |-> usr, exp |-> exp,
                threw |-> k, ret |-> r.ret, before |-> store]
    /\ UNCHANGED <<now, issued, isAuthenticated, initializing, pc, caller, result, log, body>>
    /\ UNCHANGED oauthVars

CallUpdateUser(usr) ==
    /\ store' = updateUser(store, usr)
    /\ call' = [op |-> "updateUser", tok |-> TokUndef, usr |-> usr, exp |-> ExpUndef,
                threw |-> 0, ret |-> FALSE, before |-> store]
    /\ UNCHANGED <<now, issued, isAuthenticated, initializing, pc, caller, result, log, body>>
    /\ UNCHANGED oauthVars

CallClearSession ==
    /\ store' = clearSession(store)
    /\ call' = [op |-> "clearSession", tok |-> TokUndef, usr |-> UserUndef, exp |-> ExpUndef,
                threw |-> 0, ret |-> FALSE, before |-> store]
    /\ UNCHANGED <<now, issued, isAuthenticated, initializing, pc, caller, result, log, body>>
    /\ UNCHANGED oauthVars

StoreNext ==
    \/ \E a \in SetArgs :
          Quiet(CallSetSession(a[1], a[2], a[3]))
    \/ \E tok \in {Tok(1), Tok(2)}, usr \in {Alice(0), Alice(1)}, k \in 1..3 :
          Quiet(CallSetSessionThrowing(tok, usr, Iso(90 * MinuteMs), k))
    \/ \E usr \in UserArgs :
          Quiet(CallUpdateUser(usr))
    \/ Quiet(CallClearSession)
    \/ Quiet(Tick)

SpecStore == Init /\ [][StoreNext]_vars

(***************************************************************************)
(* Linking a GitHub account: the profile page starts the handshake, the   *)
(* GitHubCallback component finishes it.                                   *)
(***************************************************************************)
sessionVars == <<store, now, issued, isAuthenticated, initializing, pc, caller, result, log,
                 body, sent, call>>

\* the state check that passes whenever a state is stored
StateRejectedOnlyIfMissing(stored, returned) == stored = 0

\* !storedState || storedState !== state
StateRejected(stored, returned) == stored = 0 \/ stored # returned

\* a cleanup that removes github_oauth_state alone
removeHandshakeStateOnly(h) == [h EXCEPT !.state = 0]

\* the two sessionStorage.removeItem calls
removeHandshake(h) == NoHandshake

\* the session variables other than the store
sessionRest == <<now, issued, isAuthenticated, initializing, pc, caller, result, log, body, sent, call>>

\* the text "undefined" that setItem stores for an undefined value, as a
\* handshake state or a state parameter
UndefinedText == 0 - 1

\* the component is gone: its state with it
Unmounted ==
    /\ status' = "none"
    /\ cpc' = "idle"
    /\ params' = NoParams
    /\ hs0' = NoHandshake

\* initiateGitHubLogin after the response of /auth/github/login: whether the
\* handshake is written, what it then is, whether the page navigates; n is
\* the state the server issued, h the stored handshake
LoginResponse(outcome, hasState, h, n) ==
    CASE outcome = "ok" ->
              [write |-> TRUE, navigate |-> TRUE,
               hs |-> [state |-> IF hasState THEN n ELSE UndefinedText, userId |-> 1]]
      [] outcome = "okquota" ->
              \* the second setItem throws: the state is stored, the user id is not
              [write |-> TRUE, navigate |-> FALSE,
               hs |-> [h EXCEPT !.state = IF hasState THEN n ELSE UndefinedText]]
      [] OTHER -> [write |-> FALSE, navigate |-> FALSE, hs |-> h]

\* initiateGitHubLogin, from the click to the end: the events are the
\* response, the handshake write and the navigation, in order
InitiateGitHubLogin(outcome, hasState, hasUrl) ==
    /\ page = "app"
    /\ statesIssued < MaxStates
    /\ outcome \notin {"ok", "okquota"} => hasState /\ hasUrl
    /\ LET n == statesIssued + 1
           r == LoginResponse(outcome, hasState, handshake, n) IN
       /\ statesIssued' = IF outcome \in {"ok", "okquota"} /\ hasState THEN n ELSE statesIssued
       /\ handshake' = r.hs
       /\ page' = IF r.navigate /\ hasUrl THEN "github" ELSE "app"
       /\ events' = <<IF outcome \in {"ok", "okquota"} THEN "login_ok" ELSE "login_fail">>
                    \o (IF outcome \in {"ok", "okquota"} /\ hasState THEN <<"body_state">> ELSE <<>>)
                    \o (IF outcome \in {"ok", "okquota"} /\ hasUrl THEN <<"body_url">> ELSE <<>>)
                    \o (IF r.write THEN <<"hs_written">> ELSE <<>>)
                    \o (IF r.navigate THEN <<"navigate">> ELSE <<"alert">>)
    /\ Unmounted
    /\ UNCHANGED mounts
    /\ UNCHANGED sessionVars

\* the user leaves GitHub without finishing and comes back to the app
BackToApp ==
    /\ page = "github"
    /\ page' = "app"
    /\ events' = <<>>
    /\ Unmounted
    /\ UNCHANGED <<handshake, statesIssued, mounts>>
    /\ UNCHANGED sessionVars

\* an error path that also ends the session
CallbackFailedClears(st) == clearSession(st)

\* the store after an error path of the callback: no SessionManager
\* operation that writes is called on it
CallbackFailed(st) == st

\* checks that look at the state alone
RejectedOnStateOnly(p, h) == StateRejected(h.state, p.state)

\* the four checks before the exchange request: error parameter, code,
\* state, linking user id
Rejected(p, h) ==
    p.error \/ ~p.code \/ StateRejected(h.state, p.state) \/ h.userId = 0

\* the callback page loads (GitHub redirects to it, a link leads to it, or
\* it is reloaded) and handleGitHubCallback runs up to its first await
CallbackMount(code, state, error) ==
    /\ mounts < MaxCallbacks
    /\ mounts' = mounts + 1
    /\ page' = "callback"
    /\ params' = [code |-> code, state |-> state, error |-> error]
    /\ hs0' = handshake
    /\ IF Rejected([code |-> code, state |-> state, error |-> error], handshake)
       THEN /\ status' = "error"
            /\ cpc' = "done"
            /\ events' = <<"processing", "error">>
            /\ store' = CallbackFailed(store)
       ELSE /\ status' = "processing"
            /\ cpc' = "awaitExchange"
            /\ events' = <<"processing", "exchange_req">>
            /\ UNCHANGED store
    /\ UNCHANGED <<handshake, statesIssued>>
    /\ UNCHANGED sessionRest

\* an already linked account that is linked once more
AfterExchangeLinksAnyway(outcome) ==
    CASE outcome \in {"linked", "unlinked"} ->
              [status |-> "linking", cpc |-> "awaitLink", remove |-> FALSE,
               ev |-> <<IF outcome = "linked" THEN "exchange_linked" ELSE "exchange_unlinked",
                        "linking", "link_req">>]
      [] outcome = "nouser" ->
              [status |-> "error", cpc |-> "done", remove |-> FALSE,
               ev |-> <<"exchange_nouser", "linking", "error">>]
      [] OTHER ->
              [status |-> "error", cpc |-> "done", remove |-> FALSE,
               ev |-> <<"exchange_fail", "error">>]

\* handleGitHubCallback from the response of /auth/github/callback to its
\* next await: the status, the position, whether the handshake is removed,
\* and the events in order
AfterExchange(outcome) ==
    CASE outcome = "linked" ->
              [status |-> "success", cpc |-> "redirect", remove |-> TRUE,
               ev |-> <<"exchange_linked", "success", "hs_removed">>]
      [] outcome = "unlinked" ->
              [status |-> "linking", cpc |-> "awaitLink", remove |-> FALSE,
               ev |-> <<"exchange_unlinked", "linking", "link_req">>]
      [] outcome = "nouser" ->
              \* github_user is missing: githubUser.id throws in linkGitHubAccount
              [status |-> "error", cpc |-> "done", remove |-> FALSE,
               ev |-> <<"exchange_nouser", "linking", "error">>]
      [] OTHER ->
              [status |-> "error", cpc |-> "done", remove |-> FALSE,
               ev |-> <<"exchange_fail", "error">>]

\* the response of /auth/github/callback and what follows it up to the next await
ExchangeResponse(outcome) ==
    /\ cpc = "awaitExchange"
    /\ LET r == AfterExchange(outcome) IN
       /\ status' = r.status
       /\ cpc' = r.cpc
       /\ events' = events \o r.ev
       /\ handshake' = IF r.remove THEN removeHandshake(handshake) ELSE handshake
       /\ store' = IF r.status = "error" THEN CallbackFailed(store) ELSE store
    /\ UNCHANGED <<page, statesIssued, mounts, params, hs0>>
    /\ UNCHANGED sessionRest

\* a link call whose catch runs after the status became success
AfterLinkCatchAfterSuccess(outcome) ==
    IF outcome = "ok"
    THEN [status |-> "error", cpc |-> "done", remove |-> TRUE,
          ev |-> <<"link_ok", "success", "hs_removed", "error">>]
    ELSE [status |-> "error", cpc |-> "done", remove |-> FALSE,
          ev |-> <<"link_fail", "error">>]

\* a link call whose failure escapes: no catch sets the status
AfterLinkEscapes(outcome) ==
    IF outcome = "ok"
    THEN [status |-> "success", cpc |-> "redirect", remove |-> TRUE,
          ev |-> <<"link_ok", "success", "hs_removed">>]
    ELSE [status |-> "linking", cpc |-> "done", remove |-> FALSE,
          ev |-> <<"link_fail">>]

\* linkGitHubAccount from the response of /auth/github/link to its end
AfterLink(outcome) ==
    IF outcome = "ok"
    THEN [status |-> "success", cpc |-> "redirect", remove |-> TRUE,
          ev |-> <<"link_ok", "success", "hs_removed">>]
    ELSE [status |-> "error", cpc |-> "done", remove |-> FALSE,
          ev |-> <<"link_fail", "error">>]

\* the response of /auth/github/link
LinkResponse(outcome) ==
    /\ cpc = "awaitLink"
    /\ LET r == AfterLink(outcome) IN
       /\ status' = r.status
       /\ cpc' = r.cpc
       /\ events' = events \o r.ev
       /\ handshake' = IF r.remove THEN removeHandshake(handshake) ELSE handshake
       /\ store' = IF r.status = "error" THEN CallbackFailed(store) ELSE store
    /\ UNCHANGED <<page, statesIssued, mounts, params, hs0>>
    /\ UNCHANGED sessionRest

\* the timer set at success fires: navigate('/profile')
SuccessRedirect ==
    /\ cpc = "redirect"
    /\ page' = "app"
    /\ events' = <<>>
    /\ Unmounted
    /\ UNCHANGED <<handshake, statesIssued, mounts>>
    /\ UNCHANGED sessionVars

\* the button of the error view
handleRetry ==
    /\ page = "callback"
    /\ status = "error"
    /\ handshake' = removeHandshake(handshake)
    /\ page' = "app"
    /\ events' = <<>>
    /\ Unmounted
    /\ UNCHANGED <<statesIssued, mounts>>
    /\ UNCHANGED sessionVars

OAuthNext ==
    \/ \E o \in {"ok", "okquota", "notok", "neterr", "badbody"}, hasState \in BOOLEAN,
           hasUrl \in BOOLEAN :
          Quiet(InitiateGitHubLogin(o, hasState, hasUrl))
    \/ Quiet(BackToApp)
    \/ \E code \in BOOLEAN, state \in UndefinedText..MaxStates, error \in BOOLEAN :
          Quiet(CallbackMount(code, state, error))
    \/ \E o \in {"linked", "unlinked", "nouser", "notok", "neterr", "badbody"} :
          Quiet(ExchangeResponse(o))
    \/ \E o \in {"ok", "notok", "neterr", "badbody"} :
          Quiet(LinkResponse(o))
    \/ Quiet(SuccessRedirect)
    \/ Quiet(handleRetry)

SpecOAuth == Init /\ [][OAuthNext]_vars

(***************************************************************************)
(* The App component with what the user sees and what runs on timers: the *)
(* toast, the screen, the two intervals, the inactivity countdown, the    *)
(* interaction listeners, the job application.  Each action is a handler  *)
(* of App.jsx; those that drive the session reuse the actions above.       *)
(***************************************************************************)
\* the effects with [isAuthenticated] as dependency, run after a render in
\* which it changed: cleanup of the old timers, then set-up of new ones
Effects(was, is, t, tm) ==
    IF was = is THEN tm
    ELSE IF is THEN [poll |-> TRUE, watch |-> TRUE, listeners |-> TRUE,
                     activity |-> t + InactivityMs, last |-> t]
    ELSE TimersOff

\* a reset that lets a pending countdown run on
resetActivityTimerKeepsPending(tm, t) ==
    IF tm.activity # NoTimer THEN [tm EXCEPT !.last = t]
    ELSE [tm EXCEPT !.activity = t + InactivityMs, !.last = t]

\* clearTimeout(activityTimer), then setTimeout(..., 30 minutes)
resetActivityTimer(tm, t) == [tm EXCEPT !.activity = t + InactivityMs, !.last = t]

\* setToast({ message, type }): the toast on screen is replaced
showToast(cur, m) == m

\* the last line of handleLogout
LogoutToast(cur) == showToast(cur, "logged_out")

\* the toast after the lines that follow await checkAndRefreshSession():
\* showToast then handleLogout, whose last line is a showToast too
ReturnToast(c, verdict, st, t, cur) ==
    CASE c = "poll" ->
              IF ~verdict THEN LogoutToast(showToast(cur, "expired"))
              ELSE IF isSessionExpiringSoon(st, t) THEN showToast(cur, "expiring") ELSE cur
      [] c = "inactivity" ->
              IF ~verdict THEN LogoutToast(showToast(cur, "inactivity")) ELSE cur
      [] OTHER -> cur

\* the handler that resumes, by the caller of checkAndRefreshSession
ReturnName(c) ==
    CASE c = "mount" -> "mount_done"
      [] c = "poll" -> "poll_done"
      [] c = "inactivity" -> "inactivity_done"
      [] OTHER -> "activity_done"

\* the forced logout those lines make, by its reason
ReturnForced(c, verdict) ==
    CASE c = "poll" /\ ~verdict -> "expired"
      [] c = "inactivity" /\ ~verdict -> "inactivity"
      [] OTHER -> "none"

\* setCurrentScreen in those lines
ReturnScreen(c, verdict, st, cur) ==
    CASE c = "mount" -> IF verdict /\ ~Falsy(getUser(st)) THEN "jobs" ELSE "login"
      [] c \in {"poll", "inactivity"} -> IF ~verdict THEN "login" ELSE cur
      [] OTHER -> cur

\* a watch that warns below the thresholds only
WatchToastBelow(st, t, cur) ==
    LET m == getTimeUntilExpiry(st, t) IN
    IF ~isSessionExpiringSoon(st, t) THEN cur
    ELSE IF m.n < 5 THEN showToast(cur, "urgent")
    ELSE IF m.n < 15 THEN showToast(cur, "info")
    ELSE cur

\* the toast after a tick of the 60 second interval
WatchToast(st, t, cur) ==
    LET m == getTimeUntilExpiry(st, t) IN
    IF ~isSessionExpiringSoon(st, t) THEN cur
    ELSE IF m.n <= 5 THEN showToast(cur, "urgent")
    ELSE IF m.n <= 15 THEN showToast(cur, "info")
    ELSE cur

\* one more checkAndRefreshSession call may start
MayStart == Cardinality({p \in Procs : pc[p] # "idle"}) < MaxInFlight

AppCheckAuthStatus(p) ==
    /\ CheckAuthStatus(p)
    /\ screen' = IF Falsy(getToken(store)) \/ Falsy(getUser(store)) THEN "login" ELSE screen
    /\ handled' = [h |-> "mount", forced |-> "none"]
    /\ UNCHANGED <<toast, timers, applying>>
    /\ UNCHANGED sent

\* a tick of the 5 minute interval
AppPoll(p) ==
    /\ timers.poll
    /\ MayStart
    /\ Poll(p)
    /\ handled' = [h |-> "poll_tick", forced |-> "none"]
    /\ UNCHANGED <<toast, screen, timers, applying>>
    /\ UNCHANGED sent

\* the inactivity countdown runs out
AppInactivity(p) ==
    /\ timers.activity # NoTimer
    /\ now >= timers.activity
    /\ MayStart
    /\ Inactivity(p)
    /\ timers' = [timers EXCEPT !.activity = NoTimer]
    /\ handled' = [h |-> "inactivity_tick", forced |-> "none"]
    /\ UNCHANGED <<toast, screen, applying>>
    /\ UNCHANGED sent

\* handleActivity while the session expires soon: the countdown is reset
\* and checkAndRefreshSession is called, not awaited
AppActivity(p) ==
    /\ timers.listeners
    /\ MayStart
    /\ Activity(p)
    /\ timers' = resetActivityTimer(timers, now)
    /\ handled' = [h |-> "activity", forced |-> "none"]
    /\ UNCHANGED <<toast, screen, applying>>
    /\ UNCHANGED sent

\* handleActivity otherwise: the countdown is reset
ActivityReset ==
    /\ timers.listeners
    /\ ~isSessionExpiringSoon(store, now)
    /\ timers' = resetActivityTimer(timers, now)
    /\ handled' = [h |-> "activity", forced |-> "none"]
    /\ UNCHANGED <<toast, screen, applying>>
    /\ UNCHANGED sessionVars
    /\ UNCHANGED oauthVars

AppMeResponse(p, outcome, u) ==
    /\ MeResponse(p, outcome, u)
    /\ handled' = [h |-> "me_response", forced |-> "none"]
    /\ UNCHANGED <<toast, screen, timers, applying>>
    /\ UNCHANGED sent

AppRefreshResponse(p, outcome, tok, exp) ==
    /\ RefreshResponse(p, outcome, tok, exp)
    /\ handled' = [h |-> "refresh_response", forced |-> "none"]
    /\ UNCHANGED <<toast, screen, timers, applying>>
    /\ UNCHANGED sent

\* the handler that awaited checkAndRefreshSession resumes
AppReturn(p) ==
    /\ Return(p)
    /\ toast' = ReturnToast(caller[p], result[p], store', now, toast)
    /\ screen' = ReturnScreen(caller[p], result[p], store, screen)
    /\ timers' = Effects(isAuthenticated, isAuthenticated', now, timers)
    /\ handled' = [h |-> ReturnName(caller[p]), forced |-> ReturnForced(caller[p], result[p])]
    /\ UNCHANGED applying
    /\ UNCHANGED sent

\* handleLogin after an ok response: line 547 on success, line 553 when
\* user.id throws
AppLogin(hasSession, tok, usr, exp) ==
    /\ Login(hasSession, tok, usr, exp)
    /\ toast' = showToast(toast, IF usr.k = "obj" THEN "welcome" ELSE "login_failed")
    /\ screen' = IF usr.k = "obj" THEN "jobs" ELSE screen
    /\ timers' = Effects(isAuthenticated, isAuthenticated', now, timers)
    /\ handled' = [h |-> "login", forced |-> "none"]
    /\ UNCHANGED applying
    /\ UNCHANGED sent

\* the logout button
AppLogout ==
    /\ Logout
    /\ toast' = LogoutToast(toast)
    /\ screen' = "login"
    /\ timers' = Effects(isAuthenticated, isAuthenticated', now, timers)
    /\ handled' = [h |-> "logout", forced |-> "none"]
    /\ UNCHANGED applying
    /\ UNCHANGED sent

\* handleApply up to its await: lines 649-671
ApplyStart ==
    /\ screen = "jobs"
    /\ ~applying
    /\ NoPendingReturn
    /\ IF ~isAuthenticated \/ ~isLoggedIn(store, now)
       THEN /\ toast' = showToast(toast, "please_login")
            /\ UNCHANGED applying
       ELSE /\ applying' = TRUE
            /\ UNCHANGED toast
    /\ handled' = [h |-> "apply", forced |-> "none"]
    /\ UNCHANGED <<screen, timers>>
    /\ UNCHANGED sessionVars
    /\ UNCHANGED oauthVars

\* handleApply from the response of /users/apply: lines 673-689
ApplyResponse(outcome) ==
    /\ applying
    /\ NoPendingReturn
    /\ applying' = FALSE
    /\ IF outcome = "401"
       THEN /\ handleLogout
            /\ toast' = LogoutToast(showToast(toast, "session_ended"))
            /\ screen' = "login"
            /\ handled' = [h |-> "apply_response", forced |-> "ended"]
       ELSE /\ toast' = showToast(toast, IF outcome = "ok" THEN "apply_ok" ELSE "apply_failed")
            /\ handled' = [h |-> "apply_response", forced |-> "none"]
            /\ UNCHANGED <<store, isAuthenticated, screen>>
    /\ timers' = Effects(isAuthenticated, isAuthenticated', now, timers)
    /\ UNCHANGED <<now, issued, initializing, pc, caller, result, log, body, sent, call>>
    /\ UNCHANGED oauthVars

\* a tick of the 60 second interval
WarningTick ==
    /\ timers.watch
    /\ NoPendingReturn
    /\ toast' = WatchToast(store, now, toast)
    /\ handled' = [h |-> "watch_tick", forced |-> "none"]
    /\ UNCHANGED <<screen, timers, applying>>
    /\ UNCHANGED sessionVars
    /\ UNCHANGED oauthVars

\* the toast closes: its 3 second timer or its button
closeToast ==
    /\ toast # "none"
    /\ NoPendingReturn
    /\ toast' = "none"
    /\ handled' = [h |-> "close_toast", forced |-> "none"]
    /\ UNCHANGED <<screen, timers, applying>>
    /\ UNCHANGED sessionVars
    /\ UNCHANGED oauthVars

\* time passes; a toast on screen has closed by then
AppTick ==
    /\ Tick
    /\ toast' = "none"
    /\ handled' = [h |-> "none", forced |-> "none"]
    /\ UNCHANGED <<screen, timers, applying>>
    /\ UNCHANGED sent

AppNext ==
    \/ \E p \in Procs : AppCheckAuthStatus(p)
    \/ \E p \in Procs : AppPoll(p)
    \/ \E p \in Procs : AppInactivity(p)
    \/ \E p \in Procs : AppActivity(p)
    \/ ActivityReset
    \/ \E p \in Procs : AppMeResponse(p, "ok", Alice(0))
    \/ \E p \in Procs, o \in {"401", "neterr"} : AppMeResponse(p, o, UserUndef)
    \/ \E p \in Procs, tok \in FreshTokens, exp \in FreshExpiries :
          AppRefreshResponse(p, "ok", tok, exp)
    \/ \E p \in Procs : AppRefreshResponse(p, "fail", TokUndef, ExpUndef)
    \/ \E p \in Procs : AppReturn(p)
    \/ \E tok \in FreshTokens, usr \in {Alice(0), UserUndef}, exp \in FreshExpiries :
          AppLogin(TRUE, tok, usr, exp)
    \/ AppLogout
    \/ ApplyStart
    \/ \E o \in {"ok", "401", "other"} : ApplyResponse(o)
    \/ WarningTick
    \/ closeToast
    \/ AppTick

SpecApp == Init /\ [][AppNext]_vars

(***************************************************************************)
(* The expiry watch, on a clock fine enough for its thresholds of 5 and   *)
(* 15 minutes: the app loads, the user logs in and out, the 60 second     *)
(* interval ticks.                                                         *)
(***************************************************************************)
\* the fine clock advances by this much
WatchStepMs == 5 * MinuteMs

\* session lifetimes around the thresholds
WatchLifetimes == {6 * MinuteMs, 16 * MinuteMs, 20 * MinuteMs, 40 * MinuteMs}

\* what the server sends as session.expires_at at login
WatchExpiries == {Iso(now + l) : l \in WatchLifetimes} \cup {ExpBad}

\* time passes; a toast on screen has closed by then
WatchClock ==
    /\ now < MaxWatchSteps * WatchStepMs
    /\ NoPendingReturn
    /\ now' = now + WatchStepMs
    /\ toast' = "none"
    /\ handled' = [h |-> "none", forced |-> "none"]
    /\ UNCHANGED <<screen, timers, applying>>
    /\ UNCHANGED <<store, issued, isAuthenticated, initializing, pc, caller, result, log, body, sent, call>>
    /\ UNCHANGED oauthVars

WatchNext ==
    \/ \E p \in Procs : AppCheckAuthStatus(p)
    \/ \E p \in Procs : AppMeResponse(p, "ok", Alice(0))
    \/ \E p \in Procs : AppMeResponse(p, "401", UserUndef)
    \/ \E p \in Procs : AppRefreshResponse(p, "fail", TokUndef, ExpUndef)
    \/ \E p \in Procs : AppReturn(p)
    \/ \E tok \in FreshTokens, exp \in WatchExpiries : AppLogin(TRUE, tok, Alice(0), exp)
    \/ AppLogout
    \/ WarningTick
    \/ closeToast
    \/ WatchClock

SpecWatch == Init /\ [][WatchNext]_vars

(***************************************************************************)
(* The App with a localStorage that may be full when the refreshed        *)
(* session is written.                                                     *)
(***************************************************************************)
\* lines 164-168 when the k-th setItem of setSession throws: setSession
\* catches, returns false, and checkAndRefreshSession goes on to return true
RefreshResponseThrowing(p, tok, exp, k) ==
    /\ pc[p] = "awaitRefresh"
    /\ NoPendingReturn
    /\ store' = setSessionThrowing(store, tok, getUser(store), exp, k).st
    /\ log' = [log EXCEPT ![p] = @ \o <<"refresh_ok", "set_threw">>]
    /\ issued' = IF tok = Tok(issued + 1) THEN issued + 1 ELSE issued
    /\ result' = [result EXCEPT ![p] = TRUE]
    /\ body' = [body EXCEPT ![p] = [tok |-> tok, exp |-> exp]]
    /\ pc' = [pc EXCEPT ![p] = "done"]
    /\ UNCHANGED <<now, isAuthenticated, initializing, caller, call>>
    /\ UNCHANGED oauthVars

QuotaNext ==
    \/ Next
    \/ \E p \in Procs, tok \in FreshTokens, exp \in FreshExpiries, k \in 1..3 :
          Quiet(RefreshResponseThrowing(p, tok, exp, k))

SpecQuota == Init /\ [][QuotaNext]_vars

(***************************************************************************)
(* The invocations with the Authorization header of their /auth/me        *)
(* request kept: the token getAuthHeaders read when the request was made. *)
(***************************************************************************)
\* a step that may start an invocation: when it sends /auth/me, the token
\* of the request is the stored one
Sending(p, Step) ==
    /\ Step
    /\ sent' = IF pc[p] = "idle" /\ pc'[p] = "awaitMe"
               THEN [sent EXCEPT ![p] = getToken(store)]
               ELSE sent
    /\ UNCHANGED appVars

\* the step that ends an invocation
Forgetting(p, Step) ==
    /\ Step
    /\ sent' = [sent EXCEPT ![p] = AbsentTok]
    /\ UNCHANGED appVars

TokensNext ==
    \/ \E p \in Procs :
          Sending(p, CheckAuthStatus(p))
    \/ \E p \in Procs :
          Sending(p, Poll(p))
    \/ \E p \in Procs, u \in MeUsers :
          Quiet(MeResponse(p, "ok", u))
    \/ \E p \in Procs, o \in {"401", "other", "neterr"} :
          Quiet(MeResponse(p, o, UserUndef))
    \/ \E p \in Procs, tok \in FreshTokens, exp \in FreshExpiries :
          Quiet(RefreshResponse(p, "ok", tok, exp))
    \/ \E p \in Procs :
          Quiet(RefreshResponse(p, "fail", TokUndef, ExpUndef))
    \/ \E p \in Procs :
          Forgetting(p, Return(p))
    \/ \E tok \in FreshTokens, exp \in FreshExpiries :
          Quiet(Login(TRUE, tok, Alice(0), exp))
    \/ Quiet(Logout)
    \/ Quiet(Tick)

SpecTokens == Init /\ [][TokensNext]_vars

(***************************************************************************)
(* The network calls of checkAndRefreshSession and of the callback page,  *)
(* with every outcome, under the assumption that each call completes.     *)
(* The App handlers run while the app page is shown; the profile page     *)
(* that starts the handshake is shown to a logged-in user, and leaving    *)
(* for GitHub unloads the app, so it is modelled at a moment at which no  *)
(* invocation is in flight.                                                *)
(***************************************************************************)
LiveCheckAuthStatus(p) == page = "app" /\ Quiet(CheckAuthStatus(p))

LivePoll(p) == page = "app" /\ Quiet(Poll(p))

LiveInitiateGitHubLogin ==
    /\ isAuthenticated
    /\ \A p \in Procs : pc[p] = "idle"
    /\ Quiet(InitiateGitHubLogin("ok", TRUE, TRUE))

\* the /auth/me fetch of invocation p settles, in any way
MeSettles(p) ==
    \/ \E u \in MeUsers : Quiet(MeResponse(p, "ok", u))
    \/ \E o \in {"401", "other", "neterr", "badbody"} : Quiet(MeResponse(p, o, UserUndef))

\* the /auth/refresh fetch of invocation p settles, in any way
RefreshSettles(p) ==
    \/ \E tok \in FreshTokens \cup {TokUndef}, exp \in FreshExpiries \cup {ExpUndef} :
          Quiet(RefreshResponse(p, "ok", tok, exp))
    \/ \E o \in {"fail", "neterr", "badbody"} : Quiet(RefreshResponse(p, o, TokUndef, ExpUndef))

\* the /auth/github/callback fetch settles, in any way
ExchangeSettles ==
    \E o \in {"linked", "unlinked", "nouser", "notok", "neterr", "badbody"} :
        Quiet(ExchangeResponse(o))

\* the /auth/github/link fetch settles, in any way
LinkSettles == \E o \in {"ok", "notok", "neterr", "badbody"} : Quiet(LinkResponse(o))

LiveNext ==
    \/ \E p \in Procs : LiveCheckAuthStatus(p)
    \/ \E p \in Procs : LivePoll(p)
    \/ \E p \in Procs : MeSettles(p)
    \/ \E p \in Procs : RefreshSettles(p)
    \/ \E p \in Procs : Quiet(Return(p))
    \/ LiveInitiateGitHubLogin
    \/ \E state \in 0..MaxStates : Quiet(CallbackMount(TRUE, state, FALSE))
    \/ ExchangeSettles
    \/ LinkSettles
    \/ Quiet(SuccessRedirect)
    \/ Quiet(handleRetry)

\* Every fetch settles although a microtask may run first (strong
\* fairness: a pending return disables the response for one step); the
\* continuation of an await runs once its promise has settled.
SpecLive ==
    /\ Init
    /\ [][LiveNext]_vars
    /\ \A p \in Procs : SF_vars(MeSettles(p)) /\ SF_vars(RefreshSettles(p))
    /\ \A p \in Procs : WF_vars(Quiet(Return(p)))
    /\ WF_vars(ExchangeSettles)
    /\ WF_vars(LinkSettles)

(***************************************************************************)
(* The same with the logout button and the way back from GitHub: the      *)
(* session may end between the start of the handshake and the callback.   *)
(***************************************************************************)
LinkNext ==
    \/ LiveNext
    \/ page = "app" /\ Quiet(Logout)
    \/ Quiet(BackToApp)

SpecLink == Init /\ [][LinkNext]_vars

(***************************************************************************)
(* The session that expires while the app is open: the check on app load, *)
(* the 5 minute interval, the clock, the logout button, and every outcome *)
(* of the two network calls.                                               *)
(***************************************************************************)
\* a tick of the 5 minute interval
PollTick == \E p \in Procs : Quiet(Poll(p))

ExpiryNext ==
    \/ \E p \in Procs : Quiet(CheckAuthStatus(p))
    \/ PollTick
    \/ \E p \in Procs : MeSettles(p)
    \/ \E p \in Procs : RefreshSettles(p)
    \/ \E p \in Procs : Quiet(Return(p))
    \/ Quiet(Logout)
    \/ Quiet(Tick)

\* The interval keeps firing and every fetch settles, although a pending
\* continuation may run first (strong fairness); the continuation of an
\* await runs once its promise has settled.
SpecExpiry ==
    /\ Init
    /\ [][ExpiryNext]_vars
    /\ SF_vars(PollTick)
    /\ \A p \in Procs : SF_vars(MeSettles(p)) /\ SF_vars(RefreshSettles(p))
    /\ \A p \in Procs : WF_vars(Quiet(Return(p)))

(***************************************************************************)
(* Properties of checkAndRefreshSession.                                   *)
(***************************************************************************)
In(l, e) == \E i \in 1..Len(l) : l[i] = e

\* invocation p handles the settled /auth/me fetch in this step
MeStep(p) == pc[p] = "awaitMe" /\ pc'[p] # "awaitMe"

\* invocation p handles the settled /auth/refresh fetch in this step
RefreshStep(p) == pc[p] = "awaitRefresh" /\ pc'[p] # "awaitRefresh"

\* ms between the clock and the stored expiry, where the expiry is a date
RemainingIs(st, t, ms) == st.expiry.k = "iso" /\ st.expiry.ms - t = ms

\* C1: an invocation whose /auth/me call ends in a network failure or in a
\* non-2xx status other than 401 writes nothing: the step that handles the
\* failure leaves token, user and expiry as they are and clears nothing.
C1_TransientFailureWritesNothing ==
    [][\A p \in Procs :
        (MeStep(p) /\ (In(log'[p], "me_neterr") \/ In(log'[p], "me_other")))
            => /\ store' = store
               /\ ~In(log'[p], "clear")
               /\ ~In(log'[p], "user_write")
               /\ ~In(log'[p], "refresh_write")]_vars

C1_Witness ==
    \E p \in Procs :
        /\ pc[p] = "done"
        /\ Has(p, "me_neterr") \/ Has(p, "me_other")
        /\ store # EmptyStore

\* C2 as stated: after a network failure or a non-401 non-2xx status of
\* /auth/me, the returned boolean is the verdict of the local validity check
\* made before the call (true, as the call was issued), whatever happened
\* while the call was in flight.
C2_ReturnsStepTwoVerdict ==
    \A p \in Procs :
        (pc[p] = "done" /\ (Has(p, "me_neterr") \/ Has(p, "me_other")))
            => result[p] = Has(p, "local_ok")

\* C2 amended: the returned boolean is the local validity of the store at
\* the time the failure is handled.
C2_ReturnsValidityAtFailure ==
    \A p \in Procs :
        (pc[p] = "done" /\ (Has(p, "me_neterr") \/ Has(p, "me_other")))
            => result[p] = (/\ store.token.k = "str"
                            /\ ~Falsy(getUser(store))
                            /\ store.expiry.k = "iso"
                            /\ now < store.expiry.ms)

C2_Witness ==
    \E p \in Procs :
        /\ pc[p] = "done"
        /\ Has(p, "me_neterr")
        /\ Has(p, "local_ok")
        /\ result[p] = FALSE
        /\ store.expiry.k = "iso" /\ now >= store.expiry.ms

\* C3: when /auth/me answers 401, checkAndRefreshSession returns false and
\* at its return the store is empty and isLoggedIn() is false.
C3_UnauthorizedClears ==
    \A p \in Procs :
        (pc[p] = "done" /\ Has(p, "me_401"))
            => /\ result[p] = FALSE
               /\ store = EmptyStore
               /\ ~isLoggedIn(store, now)

C3_Witness ==
    \E p \in Procs : pc[p] = "done" /\ Has(p, "local_ok") /\ Has(p, "me_401")

\* C4: an invocation that starts with the token absent, the user absent or
\* invalid, or the expiry missing, malformed or passed, clears the store,
\* returns false and sends no request.
C4_LocalFailureNoRequest ==
    [][\A p \in Procs :
        (/\ pc[p] = "idle" /\ pc'[p] # "idle"
         /\ \/ store.token.k # "str"
            \/ Falsy(getUser(store))
            \/ store.expiry.k # "iso"
            \/ now >= store.expiry.ms)
            => /\ store' = EmptyStore
               /\ pc'[p] = "done"
               /\ result'[p] = FALSE
               /\ ~In(log'[p], "me_req")
               /\ ~In(log'[p], "refresh_req")]_vars

C4_Witness ==
    \E p \in Procs :
        /\ pc[p] = "done"
        /\ Has(p, "not_valid")
        /\ store = EmptyStore
        /\ result[p] = FALSE

RefreshSucceeded(p) == RefreshStep(p) /\ In(log'[p], "refresh_ok")

C8_RefreshFailureKeepsSession ==
    [][\A p \in Procs :
        (/\ RefreshStep(p)
         /\ \/ In(log'[p], "refresh_fail")
            \/ In(log'[p], "refresh_neterr")
            \/ In(log'[p], "refresh_badbody")
            \/ In(log'[p], "refresh_partbody"))
            => /\ store' = store
               /\ pc'[p] = "done"
               /\ result'[p] = TRUE]_vars

C8_Witness ==
    \E p \in Procs :
        /\ pc[p] = "done"
        /\ Has(p, "me_ok")
        /\ Has(p, "refresh_fail") \/ Has(p, "refresh_neterr")
        /\ result[p] = TRUE
        /\ isSessionValid(store, now)

\* C9: within one invocation the write of the server's user snapshot comes
\* before the read of the expiry for the refresh decision, before the
\* refresh request and before the refresh write.
C9_UserWriteFirst ==
    \A p \in Procs : \A i \in 1..Len(log[p]) :
        log[p][i] \in {"expiry_read", "refresh_req", "refresh_write"}
            => \E j \in 1..(i - 1) : log[p][j] = "user_write"

C9_Witness ==
    \E p \in Procs :
        /\ pc[p] = "done"
        /\ Has(p, "user_write")
        /\ Has(p, "expiry_read")
        /\ Has(p, "refresh_write")

WroteAll(st, c) ==
    /\ st.token = ToText(c.tok)
    /\ st.user = JSONStringify(c.usr)
    /\ st.expiry = ToText(c.exp)

\* the arguments are a non-empty token, a user with id and email, an expiry
\* later than the time t
WellFormed(c, t) ==
    /\ c.tok.k = "str"
    /\ c.usr.k = "obj" /\ c.usr.id # 0 /\ c.usr.email # ""
    /\ c.exp.k = "iso" /\ c.exp.ms > t

\* C11: after a setSession call the store holds either all three fields of
\* the call or exactly what it held before the call, also when one of the
\* storage writes throws after an earlier one succeeded.
C11_SetIsAtomic ==
    call.op = "setSession" => (store = call.before \/ WroteAll(store, call))

C13_ValidIffAllPresentAndFuture ==
    isSessionValid(store, now)
        <=> /\ store.token.k = "str"
            /\ store.user.form = "json" /\ store.user.id # 0 /\ store.user.email # ""
            /\ store.expiry.k = "iso" /\ now < store.expiry.ms

\* a complete session whose expiry is exactly now
C13_Witness ==
    /\ store.token.k = "str"
    /\ store.user.form = "json" /\ store.user.id # 0 /\ store.user.email # ""
    /\ store.expiry.k = "iso" /\ store.expiry.ms = now
    /\ ~isSessionValid(store, now)

\* C14: getTimeUntilExpiry is a non-negative integer for every stored
\* expiry, 0 when the expiry is past or not stored.
C14_NonNegativeInteger ==
    LET m == getTimeUntilExpiry(store, now) IN
    /\ ~m.nan
    /\ m.n >= 0
    /\ (store.expiry.k = "absent" => m.n = 0)
    /\ (store.expiry.k = "iso" /\ store.expiry.ms <= now => m.n = 0)

\* C15: getUser returns null whenever the stored user is missing, does not
\* parse, or has an empty id or email.
C15_GetUserRevalidates ==
    (store.user.form # "json" \/ store.user.id = 0 \/ store.user.email = "")
        => getUser(store) = UserNull

\* an updateUser call has stored an object without email
C15_Witness ==
    /\ call.op = "updateUser" /\ call.usr.k = "obj" /\ call.usr.email = ""
    /\ store.user = JSONStringify(call.usr)
    /\ store.token.k = "str"
    /\ getUser(store) = UserNull

\* C16: updateUser leaves the stored token and the stored expiry as they were.
C16_UpdateUserKeepsTokenAndExpiry ==
    call.op = "updateUser"
        => /\ store.token = call.before.token
           /\ store.expiry = call.before.expiry

C16_Witness ==
    /\ call.op = "updateUser"
    /\ store.user # call.before.user
    /\ store.token.k = "str" /\ store.expiry.k = "iso"

\* C17: after clearSession the three fields are absent, from every store,
\* the empty one included.
C17_ClearLeavesEmpty ==
    call.op = "clearSession" => store = EmptyStore

\* a clearSession on a store that a clearSession had emptied
C17_Witness ==
    /\ call.op = "clearSession" /\ call.before = EmptyStore /\ store = EmptyStore
    /\ now > 0

(***************************************************************************)
(* C18 .. C20: the OAuth callback, under SpecOAuth.                       *)
(***************************************************************************)
\* the status changes among the events, in order
Statuses(ev) ==
    SelectSeq(ev, LAMBDA e : e \in {"processing", "linking", "success", "error"})

\* how many times the handshake was removed
Removals(ev) == Len(SelectSeq(ev, LAMBDA e : e = "hs_removed"))

\* C18: a callback whose state parameter differs from the stored handshake
\* state, or that finds no stored state, has status error and has called
\* neither the exchange endpoint nor the link endpoint.
C18_StateMismatchIsRejected ==
    (page = "callback" /\ (hs0.state = 0 \/ hs0.state # params.state))
        => /\ status = "error"
           /\ cpc = "done"
           /\ ~In(events, "exchange_req")
           /\ ~In(events, "link_req")

\* a code and a state arrive, a different state is stored
C18_Witness ==
    /\ page = "callback"
    /\ params.code /\ ~params.error /\ params.state # 0
    /\ hs0.state # 0 /\ hs0.userId # 0 /\ hs0.state # params.state
    /\ status = "error"

\* C19: with a matching state, a stored linking user id, an exchange that
\* reports the account not linked and a link call that succeeds, the status
\* goes processing, linking, success, and the handshake is removed once,
\* right after the status became success; until then it is stored unchanged.
C19_ProcessingLinkingSuccess ==
    (/\ page = "callback"
     /\ params.code /\ ~params.error
     /\ hs0.state # 0 /\ hs0.state = params.state /\ hs0.userId # 0)
        => /\ (cpc \in {"awaitExchange", "awaitLink"}
                  => handshake = hs0 /\ Removals(events) = 0)
           /\ (In(events, "exchange_unlinked") /\ ~In(events, "link_ok") /\ cpc = "awaitLink"
                  => Statuses(events) = <<"processing", "linking">>)
           /\ (In(events, "exchange_unlinked") /\ In(events, "link_ok")
                  => /\ Statuses(events) = <<"processing", "linking", "success">>
                     /\ status = "success"
                     /\ Removals(events) = 1
                     /\ events[Len(events)] = "hs_removed"
                     /\ events[Len(events) - 1] = "success"
                     /\ handshake = NoHandshake)

C19_Witness ==
    /\ page = "callback"
    /\ hs0.state # 0 /\ hs0.state = params.state /\ hs0.userId # 0
    /\ In(events, "exchange_unlinked") /\ In(events, "link_ok")
    /\ status = "success"
    /\ handshake = NoHandshake

\* C20: once a callback that used the handshake for the exchange has
\* reached success or error, the handshake is no longer stored.
C20_HandshakeIsSingleUse ==
    (page = "callback" /\ status \in {"success", "error"} /\ In(events, "exchange_req"))
        => handshake = NoHandshake

(***************************************************************************)
(* C21 .. C25: the OAuth callback and initiation, under SpecOAuth.        *)
(***************************************************************************)
\* C21: no step of a callback that leaves the status at processing, linking
\* or error (rejection at load, exchange failure, link failure) changes the
\* stored token, user or expiry.
C21_FailedLinkingKeepsSession ==
    [][(page' = "callback" /\ status' \in {"processing", "linking", "error"})
          => store' = store]_vars

\* the link call failed while a session was stored
C21_Witness ==
    /\ page = "callback" /\ status = "error"
    /\ In(events, "link_fail")
    /\ store.token.k = "str" /\ store.user.form = "json"

\* the status changes a callback may make
StatusMoves ==
    {<<"processing", "error">>, <<"processing", "linking">>, <<"processing", "success">>,
     <<"linking", "success">>, <<"linking", "error">>}

\* the status changes of the events start at processing and follow StatusMoves
StatusPathOk(ev) ==
    LET S == Statuses(ev) IN
    /\ Len(S) > 0 => S[1] = "processing"
    /\ \A i \in 1..(Len(S) - 1) : <<S[i], S[i + 1]>> \in StatusMoves

\* C22: the status of a callback moves only along processing -> error,
\* processing -> linking, processing -> success, linking -> success and
\* linking -> error, and no step of the same callback changes a status that
\* is success or error.
C22_StatusMovesForwardOnly ==
    [][/\ (page' = "callback" => StatusPathOk(events'))
       /\ (page' = "callback" /\ mounts' = mounts /\ status \in {"success", "error"}
              => status' = status)]_vars

C22_Witness ==
    /\ page = "callback"
    /\ Statuses(events) = <<"processing", "linking", "error">>
    /\ In(events, "link_fail")

\* C23: a callback with an error parameter, without code, or without a
\* stored linking user id has status error and has made no exchange and no
\* link request, whatever the handshake holds.
C23_EarlyChecksReject ==
    (page = "callback" /\ (params.error \/ ~params.code \/ hs0.userId = 0))
        => /\ status = "error"
           /\ cpc = "done"
           /\ ~In(events, "exchange_req")
           /\ ~In(events, "link_req")

\* an error parameter arrives with a code and the stored state
C23_Witness ==
    /\ page = "callback"
    /\ params.error /\ params.code
    /\ hs0.state # 0 /\ hs0.state = params.state /\ hs0.userId # 0
    /\ status = "error"

\* C24: when the exchange reports the account already linked, the status
\* goes from processing to success, no link request is made and the
\* handshake is removed.
C24_AlreadyLinkedGoesToSuccess ==
    (page = "callback" /\ In(events, "exchange_linked"))
        => /\ Statuses(events) = <<"processing", "success">>
           /\ status = "success"
           /\ ~In(events, "link_req")
           /\ Removals(events) = 1
           /\ handshake = NoHandshake

C24_Witness ==
    /\ page = "callback"
    /\ hs0.state # 0 /\ hs0.userId # 0
    /\ In(events, "exchange_linked")
    /\ status = "success"

\* the place of the first event e in the events (0: not there)
Place(ev, e) == IF In(ev, e) THEN CHOOSE i \in 1..Len(ev) : ev[i] = e /\ \A j \in 1..(i - 1) : ev[j] # e
                ELSE 0

\* C25: initiateGitHubLogin writes the handshake before it navigates, does
\* both only when the server returned an authorization URL and a state, and
\* writes nothing and does not navigate when the request fails.
C25_HandshakeThenNavigate ==
    page \in {"app", "github"}
        => /\ (In(events, "navigate")
                  => In(events, "hs_written") /\ Place(events, "hs_written") < Place(events, "navigate"))
           /\ (In(events, "hs_written") \/ In(events, "navigate")
                  => In(events, "body_state") /\ In(events, "body_url"))
           /\ (In(events, "login_fail")
                  => ~In(events, "hs_written") /\ ~In(events, "navigate"))

(***************************************************************************)
(* C26 .. C30: timers, listeners and toasts of App, under SpecApp.        *)
(***************************************************************************)
\* a checkAndRefreshSession call of caller c starts in this step
Starts(c) == \E p \in Procs : caller[p] = "none" /\ caller'[p] = c

\* the handler that awaited the call of caller c resumes in this step
Resumes(p, c) == pc[p] = "done" /\ pc'[p] = "idle" /\ caller[p] = c

\* the application is forced to the logged-out state in this step
ForcedOut ==
    /\ store' = EmptyStore
    /\ ~isAuthenticated'
    /\ screen' = "login"

\* C26: a tick of the 5 minute interval happens only while authenticated
\* and starts checkAndRefreshSession; when the call returned false the
\* store is cleared, isAuthenticated is false and the login screen is
\* shown; when it returned true the store, isAuthenticated and the screen
\* stay, and the expiry warning is shown exactly when the session expires
\* soon.
C26_PollVerdictDecides ==
    [][/\ (handled'.h = "poll_tick" => isAuthenticated /\ Starts("poll"))
       /\ \A p \in Procs :
             Resumes(p, "poll")
                 => IF result[p]
                    THEN /\ store' = store
                         /\ isAuthenticated' = isAuthenticated
                         /\ screen' = screen
                         /\ toast' = IF isSessionExpiringSoon(store, now)
                                     THEN "expiring" ELSE toast
                    ELSE ForcedOut]_vars

\* the poll forced a logout of a session that was stored
C26_Witness ==
    /\ handled = [h |-> "poll_done", forced |-> "expired"]
    /\ store = EmptyStore /\ ~isAuthenticated /\ screen = "login"
    /\ timers = TimersOff

\* C27: an interaction happens only while authenticated, sets the
\* countdown to 30 minutes from now, and starts checkAndRefreshSession when
\* the session expires soon; the countdown runs out only 30 minutes or more
\* after the last interaction and then starts checkAndRefreshSession; when
\* that call returned false the application is forced to the logged-out
\* state.
C27_InactivityCountdown ==
    [][/\ (handled'.h = "activity"
              => /\ isAuthenticated
                 /\ timers'.activity = now + InactivityMs
                 /\ (isSessionExpiringSoon(store, now) => Starts("activity")))
       /\ (handled'.h = "inactivity_tick"
              => /\ isAuthenticated
                 /\ timers.last # NoTimer
                 /\ now >= timers.last + InactivityMs
                 /\ Starts("inactivity"))
       /\ \A p \in Procs :
             (Resumes(p, "inactivity") /\ ~result[p]) => ForcedOut]_vars

\* the countdown ran out 30 minutes after an interaction that came 30
\* minutes after the login
C27_Witness ==
    /\ handled.h = "inactivity_tick"
    /\ timers.last = TickMs
    /\ now = 2 * TickMs
    /\ isAuthenticated

\* C28: while not authenticated, no interval, countdown or listener is
\* left, no step starts checkAndRefreshSession from a tick or an
\* interaction, and no step shows an expiry warning.
C28_NothingRunsWhenLoggedOut ==
    [][(~isAuthenticated /\ ~isAuthenticated')
          => /\ timers' = TimersOff
             /\ ~Starts("poll") /\ ~Starts("inactivity") /\ ~Starts("activity")
             /\ (toast' \in {"expiring", "urgent", "info"} => toast' = toast)]_vars

\* C30: after a handler that forced a logout, the toast on screen is the
\* one that explains the reason: expired, inactivity or session ended.
C30_ForcedLogoutToastExplains ==
    /\ (handled.forced = "expired" => toast = "expired")
    /\ (handled.forced = "inactivity" => toast = "inactivity")
    /\ (handled.forced = "ended" => toast = "session_ended")

(***************************************************************************)
(* C29: the expiry watch, under SpecWatch.                                 *)
(***************************************************************************)
\* C29: a tick of the 60 second interval happens only while authenticated;
\* it shows the urgent warning when at most 5 minutes are left, the
\* informational one when more than 5 and at most 15 are left, and leaves
\* the toast as it is otherwise; it changes neither the store nor
\* isAuthenticated and starts no checkAndRefreshSession call.
C29_WatchWarnsByTier ==
    [][handled'.h = "watch_tick"
          => LET m == getTimeUntilExpiry(store, now) IN
             /\ isAuthenticated
             /\ toast' = IF ~m.nan /\ m.n <= 5 THEN "urgent"
                         ELSE IF ~m.nan /\ m.n <= 15 THEN "info"
                         ELSE toast
             /\ store' = store
             /\ isAuthenticated' = isAuthenticated
             /\ pc' = pc /\ caller' = caller]_vars

\* a tick with exactly 15 minutes left
C29_Witness ==
    /\ handled.h = "watch_tick"
    /\ getTimeUntilExpiry(store, now) = Num(15)
    /\ toast = "info"

(***************************************************************************)
(* C31: termination of the network calls, under SpecLive.                  *)
(***************************************************************************)
\* C31: every invocation of checkAndRefreshSession that awaits /auth/me or
\* /auth/refresh eventually resolves (to the boolean result), and a
\* callback page that awaits the exchange or the link eventually shows the
\* status success or error, whatever the calls answer.
C31_EveryCallSettles ==
    /\ \A p \in Procs : (pc[p] \in {"awaitMe", "awaitRefresh"}) ~> (pc[p] = "done")
    /\ (cpc \in {"awaitExchange", "awaitLink"}) ~> (status \in {"success", "error"})

\* the callback page ended in error after a failed link call, in a session
\* whose token was written by an invocation that awaited both calls and
\* resolved
C31_Witness ==
    /\ getToken(store) = Tok(2)
    /\ \A p \in Procs : pc[p] = "idle"
    /\ cpc = "done" /\ status = "error"
    /\ \E i \in 1..Len(events) : events[i] = "link_fail"

(***************************************************************************)
(* C32: the callback page and the session, under SpecOAuth.                *)
(***************************************************************************)
\* C32: the step in which the callback page reaches the status success
\* replaces the stored user snapshot and keeps token and expiry; every
\* other step of the linking flow leaves the store as it is.
C32_SuccessWritesStore ==
    [][IF status # "success" /\ status' = "success"
       THEN /\ store'.user # store.user
            /\ store'.token = store.token
            /\ store'.expiry = store.expiry
       ELSE store' = store]_vars

(***************************************************************************)
(* C33 .. : logout, login and the invocations in flight.                   *)
(***************************************************************************)
\* C33: while the toast of handleLogout is on screen and the store is
\* empty, no step other than a login writes the store: it stays empty.
C33_StoreStaysEmptyAfterLogout ==
    [][(toast = "logged_out" /\ store = EmptyStore /\ handled'.h # "login")
          => store' = EmptyStore]_vars

\* C34: under SpecTokens, a step in which invocation p handles its /auth/me
\* response and empties the store, or in which the handler awaiting p
\* forces a logout, finds in the store no token other than the one p sent.
C34_ClearsOnlyOwnToken ==
    [][\A p \in Procs :
          /\ (pc[p] = "awaitMe" /\ pc'[p] = "done" /\ store # EmptyStore /\ store' = EmptyStore)
                => getToken(store) = sent[p]
          /\ (pc[p] = "done" /\ pc'[p] = "idle" /\ isAuthenticated /\ ~isAuthenticated')
                => getToken(store) \in {AbsentTok, sent[p]}]_vars

\* C35: under Spec, whenever no continuation is pending (a timer, event or
\* network callback can run), the token, the user snapshot and the expiry
\* are all stored or all absent.
C35_AllOrNothing ==
    NoPendingReturn =>
        \/ store = EmptyStore
        \/ store.token.k # "absent" /\ store.user.k # "absent" /\ store.expiry.k # "absent"

\* C36: under SpecQuota, a step after which a token is stored and that
\* changed the stored token or the stored expiry wrote both from one
\* response: the session of the /auth/refresh body the invocation read, or
\* the session of a login response.
C36_ExpiryComesWithToken ==
    [][(store'.token.k = "str" /\ (store'.token # store.token \/ store'.expiry # store.expiry))
          => \/ \E p \in Procs :
                   /\ RefreshStep(p)
                   /\ store'.token = body'[p].tok
                   /\ store'.expiry = body'[p].exp
             \/ /\ ~isAuthenticated /\ pc' = pc
                /\ issued' = issued + 1
                /\ store'.token = Tok(issued')
                /\ store'.expiry \in FreshExpiries]_vars

\* C37: under Spec, when an invocation has resolved to true, the store
\* holds a token, a user that getUser accepts (id and email present) and
\* an expiry.
C37_TrueMeansCompleteSession ==
    \A p \in Procs :
        (pc[p] = "done" /\ result[p])
            => /\ ~Falsy(getToken(store))
               /\ ~Falsy(getUser(store))
               /\ ~Falsy(getExpiry(store))

\* C38: under SpecLink, the step that sends the /auth/github/link request
\* finds a valid session stored, whose user has the id that the request
\* sends as user_id (the stored github_linking_user_id).
C38_LinkOnlyForStoredSession ==
    [][(~In(events, "link_req") /\ In(events', "link_req"))
          => /\ isSessionValid(store, now)
             /\ getUser(store).id = handshake.userId]_vars

(***************************************************************************)
(* C39: the session that expires while the app is open, under SpecExpiry. *)
(***************************************************************************)
\* the stored expiry has passed while the application is authenticated
ExpiryPassed ==
    /\ isAuthenticated
    /\ store.expiry.k = "iso"
    /\ now >= store.expiry.ms

\* the application is logged out and the store is empty
LoggedOutEmpty == ~isAuthenticated /\ store = EmptyStore

\* C39 as stated: once the stored expiry has passed while authenticated,
\* the application eventually is logged out with an empty store.
C39_ExpiredLeadsToLogout == ExpiryPassed ~> LoggedOutEmpty

\* C39 amended: once the stored expiry has passed while authenticated,
\* eventually the application is logged out with an empty store, or a
\* session that is valid again is stored (the refresh of an invocation
\* that was in flight when the expiry passed succeeded).
C39_ExpiredLeadsToLogoutOrRenewal ==
    ExpiryPassed ~> (LoggedOutEmpty \/ isSessionValid(store, now))

\* the invocation of an interval tick has found the session of the
\* authenticated application expired, cleared the store and resolved to
\* false: its callback is about to force the logout
C39_Witness ==
    /\ isAuthenticated
    /\ store = EmptyStore
    /\ \E p \in Procs :
          /\ pc[p] = "done" /\ caller[p] = "poll" /\ ~result[p]
          /\ log[p] = <<"not_valid", "clear">>

====
